---- MODULE Spec2Model ----
(***************************************************************************)
(* Flocking: birds steered by fuzzy rules on a wrapping canvas, with a     *)
(* predator driven by the mouse (src/lib/Environment.js, the Bird and      *)
(* Predator of src/lib/Predator.js, the Vector of src/unnamed/part_002).   *)
(*                                                                         *)
(* Number representation.  A JavaScript number that is a length, a         *)
(* coordinate, a speed or an acceleration is an integer count of 1/Res     *)
(* pixels ("fixed point"); products and quotients are truncated toward     *)
(* zero.  A number that is not finite (NaN, +-Infinity, or the result of   *)
(* arithmetic on undefined) is the single value NotFinite.  A ratio that   *)
(* the code compares or scales by (a fuzzy membership, the clamp factor    *)
(* of move) is an exact fraction [k, n, d] whose kind k tells a finite     *)
(* value from NaN and the two infinities, so that Math.min, Math.max and   *)
(* the > 0 test treat them as IEEE-754 does.  Angles are whole degrees     *)
(* (Math.PI is 180); Math.sin and Math.cos are read from a table.          *)
(* Negative zero is not distinguished from zero.                           *)
(***************************************************************************)
EXTENDS Integers, Sequences, FiniteSets, TLC

(***************************************************************************)
(* Bounds of the model                                                     *)
(***************************************************************************)
Res == 4        \* fixed-point units per pixel
MaxBirds == 2   \* birds added before run()
MaxTicks == 1   \* interval callbacks explored
ScanLimit == 20 \* rounds of the inner for of processOrderedSet followed in one tick
MaxRules == 2   \* rules of a FuzzyLogicEngine

(***************************************************************************)
(* JavaScript arithmetic                                                   *)
(***************************************************************************)
NotFinite == -2000000000

IsFinite(a) == a # NotFinite

Fx(pixels) == pixels * Res

\* Math.abs
Abs(a) == IF a < 0 THEN -a ELSE a

\* a / b of two finite integers, b > 0, truncated toward zero
TDiv(a, b) == IF a >= 0 THEN a \div b ELSE -((-a) \div b)

\* the % operator: the remainder has the sign of the dividend
JSMod(a, b) ==
    IF b = 0 THEN NotFinite
    ELSE IF a >= 0 THEN a % b ELSE -((-a) % b)

NAdd(a, b) == IF IsFinite(a) /\ IsFinite(b) THEN a + b ELSE NotFinite

NSub(a, b) == IF IsFinite(a) /\ IsFinite(b) THEN a - b ELSE NotFinite

\* a * (n / d), d > 0
NScale(a, n, d) == IF IsFinite(a) THEN TDiv(a * n, d) ELSE NotFinite

\* a / b of two fixed-point numbers, as a fixed-point number
FxDiv(a, b) ==
    IF ~IsFinite(a) \/ ~IsFinite(b) \/ b = 0 THEN NotFinite
    ELSE IF b > 0 THEN TDiv(a * Res, b) ELSE -TDiv(a * Res, -b)

RECURSIVE SqrtSearch(_, _, _)
SqrtSearch(s, lo, hi) ==
    IF lo = hi THEN lo
    ELSE LET mid == (lo + hi + 1) \div 2
             below == mid * mid <= s
         IN  SqrtSearch(s, IF below THEN mid ELSE lo, IF below THEN hi ELSE mid - 1)

\* Math.sqrt, rounded down
Sqrt(s) == SqrtSearch(s, 0, 46340)

(***************************************************************************)
(* Ratios: [k |-> "num", n, d] is n/d with d > 0                           *)
(***************************************************************************)
Rat(n, d) == [k |-> "num", n |-> n, d |-> d]
NaNRatio == [k |-> "nan", n |-> 0, d |-> 1]
PosInf == [k |-> "inf", n |-> 1, d |-> 1]
NegInf == [k |-> "ninf", n |-> -1, d |-> 1]
Zero == Rat(0, 1)
One == Rat(1, 1)

\* n / d as IEEE-754 division does it: 0/0 is NaN, x/0 is an infinity
JSDiv(n, d) ==
    IF ~IsFinite(n) \/ ~IsFinite(d) THEN NaNRatio
    ELSE IF d = 0 THEN (IF n = 0 THEN NaNRatio ELSE IF n > 0 THEN PosInf ELSE NegInf)
    ELSE IF d > 0 THEN Rat(n, d) ELSE Rat(-n, -d)

\* p < q, neither NaN
RatLess(p, q) ==
    IF p.k = "inf" \/ q.k = "ninf" THEN FALSE
    ELSE IF p.k = "ninf" \/ q.k = "inf" THEN TRUE
    ELSE p.n * q.d < q.n * p.d

RatEq(p, q) == p.k = q.k /\ (p.k = "num" => p.n * q.d = q.n * p.d)

\* Math.min and Math.max: NaN if either argument is NaN
MathMin(p, q) ==
    IF p.k = "nan" \/ q.k = "nan" THEN NaNRatio
    ELSE IF RatLess(q, p) THEN q ELSE p

MathMax(p, q) ==
    IF p.k = "nan" \/ q.k = "nan" THEN NaNRatio
    ELSE IF RatLess(p, q) THEN q ELSE p

\* !(r <= 0): true for NaN
notAtMostZero(r) == ~(r.k = "ninf" \/ (r.k = "num" /\ r.n <= 0))

\* r >= 0: false for NaN
atLeastZero(r) == r.k = "inf" \/ (r.k = "num" /\ r.n >= 0)

\* r > 0: false for NaN
GreaterThanZero(r) == r.k = "inf" \/ (r.k = "num" /\ r.n > 0)

(***************************************************************************)
(* Trigonometry in whole degrees                                           *)
(***************************************************************************)
PI == 180

SinTab == <<
   0, 17, 35, 52, 70, 87, 105, 122, 139, 156, 174, 191, 208,
   225, 242, 259, 276, 292, 309, 326, 342, 358, 375, 391, 407, 423,
   438, 454, 469, 485, 500, 515, 530, 545, 559, 574, 588, 602, 616,
   629, 643, 656, 669, 682, 695, 707, 719, 731, 743, 755, 766, 777,
   788, 799, 809, 819, 829, 839, 848, 857, 866, 875, 883, 891, 899,
   906, 914, 921, 927, 934, 940, 946, 951, 956, 961, 966, 970, 974,
   978, 982, 985, 988, 990, 993, 995, 996, 998, 999, 999, 1000, 1000 >>

TrigScale == SinTab[91]

\* Math.sin, times TrigScale
Sin(deg) ==
    LET r == deg % (2 * PI)
    IN  IF r <= 90 THEN SinTab[r + 1]
        ELSE IF r <= 180 THEN SinTab[180 - r + 1]
        ELSE IF r <= 270 THEN -SinTab[r - 180 + 1]
        ELSE -SinTab[360 - r + 1]

\* Math.cos, times TrigScale
Cos(deg) == Sin(deg + 90)

RECURSIVE AngleSearch(_, _, _, _)
AngleSearch(y, x, lo, hi) ==
    IF lo = hi THEN lo
    ELSE LET mid == (lo + hi + 1) \div 2
             below == Cos(mid) * y - Sin(mid) * x >= 0
         IN  AngleSearch(y, x, IF below THEN mid ELSE lo, IF below THEN hi ELSE mid - 1)

\* Math.atan2(y, x) in degrees, in -179..180, truncated toward zero
Atan2(y, x) ==
    IF ~IsFinite(y) \/ ~IsFinite(x) THEN NotFinite
    ELSE IF y = 0 /\ x = 0 THEN 0
    ELSE (IF y >= 0 THEN 1 ELSE -1) * AngleSearch(Abs(y), x, 0, PI)

(***************************************************************************)
(* Vector                                                                  *)
(***************************************************************************)
Vector(x, y) == [x |-> x, y |-> y]

getMagnitude(v) ==
    IF IsFinite(v.x) /\ IsFinite(v.y) THEN Sqrt(v.x * v.x + v.y * v.y)
    ELSE NotFinite

getBearing(v) == Atan2(v.y, v.x)

\* scale by the ratio r
scale(v, r) ==
    IF r.k = "num" THEN Vector(NScale(v.x, r.n, r.d), NScale(v.y, r.n, r.d))
    ELSE Vector(NotFinite, NotFinite)

add(v, w) == Vector(NAdd(v.x, w.x), NAdd(v.y, w.y))

subtract(v, w) == Vector(NSub(v.x, w.x), NSub(v.y, w.y))

newFromPolar(magnitude, bearing) ==
    IF IsFinite(magnitude) /\ IsFinite(bearing)
    THEN Vector(TDiv(Cos(bearing) * magnitude, TrigScale),
                TDiv(Sin(bearing) * magnitude, TrigScale))
    ELSE Vector(NotFinite, NotFinite)

(***************************************************************************)
(* State                                                                   *)
(***************************************************************************)
VARIABLES
    canvas,       \* [width, height] of the canvas element, fixed point
    windowEvent,  \* whether the host defines the global `event` during dispatch
    birds,        \* env.birds: the bird with id k is birds[k + 1]
    predator,     \* env.predator: [position, active]
    pc,           \* "seeding": the application adds birds; "idle": the event
                  \* loop is idle; "tick": inside the interval callback
    cursor,       \* index of the next bird of the callback's forEach
    ticks,        \* interval callbacks started
    calls,        \* history: the considerBird calls of the latest tick, in order
    hunts,        \* history: the considerPredator calls of the latest tick
    press,        \* history: the latest mousedown or mouseup event
    sweeps,       \* history: what the latest processBirds did, kept until the
                  \* first bird of the tick moves: [orders, rounds, compared, stops]
    engine        \* history: the latest FuzzyLogicEngine run: [rules, results, output]

vars == <<canvas, windowEvent, birds, predator, pc, cursor, ticks, calls, hunts, press,
          sweeps, engine>>

(***************************************************************************)
(* Program constants                                                       *)
(***************************************************************************)
closeness == 75
influence == 150
maxVelocity == 100
maxAcceleration == 100
frameRate == 24
MAX_COMPARABLE_DISTANCE == 300
TooCloseStrength == 5000
PredatorFactor == 50
White == <<"white">>

\* new Bird(): the configuration every bird starts with
Bird ==
    [ id |-> NotFinite,
      position |-> Vector(NotFinite, NotFinite),
      velocity |-> Vector(NotFinite, NotFinite),
      acceleration |-> Vector(NotFinite, NotFinite),
      color |-> White,
      closeness |-> Fx(closeness),
      influence |-> Fx(influence),
      maxVelocity |-> Fx(maxVelocity),
      maxAcceleration |-> Fx(maxAcceleration),
      fieldOfVision |-> PI ]

\* new Predator(0, 0): the constructor takes (env, x, y), so x is the second
\* argument and y is undefined
Predator(env, x, y) == [position |-> Vector(x, y), active |-> FALSE]

BirdAt(bs, k) == bs[k + 1]

(***************************************************************************)
(* Bird: membership functions, field of vision, rules                      *)
(***************************************************************************)
Trapezoid(x, a, b, c, d) ==
    MathMax(Zero, MathMin(MathMin(JSDiv(NSub(x, a), b - a), One), JSDiv(NSub(c, x), d - c)))

Triangle(x, a, b, c) ==
    MathMax(Zero, MathMin(JSDiv(NSub(x, a), b - a), JSDiv(NSub(c, x), c - b)))

Square(x, a, b) == IF IsFinite(x) /\ a < x /\ x < b THEN One ELSE Zero

\* the comparison of inFieldOfVision, given the two bearings
headingWithin(headingOne, headingTwo, fieldOfVision) ==
    LET lower == IF headingOne < headingTwo THEN headingOne ELSE headingTwo
        upper == IF headingOne < headingTwo THEN headingTwo ELSE headingOne
        difference == IF headingTwo - headingOne > PI
                      THEN lower + 2 * PI - upper
                      ELSE headingTwo - headingOne
    IN  difference < fieldOfVision

inFieldOfVision(sourceBird, destinationBird) ==
    headingWithin(getBearing(sourceBird.velocity),
                  getBearing(subtract(destinationBird.position, sourceBird.position)),
                  sourceBird.fieldOfVision)

\* Environment.findClosestLatticeLocation and its helper
closestLatticeNode(originPosition, destinationPosition, latticePeriod) ==
    IF ~IsFinite(destinationPosition) THEN NotFinite
    ELSE IF ~IsFinite(originPosition) THEN destinationPosition
    ELSE IF Abs(originPosition - destinationPosition)
            > Abs(originPosition - (destinationPosition - latticePeriod))
    THEN destinationPosition - latticePeriod
    ELSE IF Abs(originPosition - destinationPosition)
            > Abs(originPosition - (destinationPosition + latticePeriod))
    THEN destinationPosition + latticePeriod
    ELSE destinationPosition

\* a lattice search that never leaves the canvas
destinationItself(origin, destination) == destination

findClosestLatticeLocation(origin, destination) ==
    Vector(closestLatticeNode(origin.x, destination.x, canvas.width),
           closestLatticeNode(origin.y, destination.y, canvas.height))

\* the distance every membership function computes first
latticeDistance(bird, destination) ==
    LET nearestLattice == findClosestLatticeLocation(bird.position, destination.position)
    IN  getMagnitude(subtract(bird.position, nearestLattice))

\* the Triangle each rule of Bird.INTRA_BIRD_FUZZY_RULES applies to the distance
intraBirdTriangle(rule, bird, distance) ==
    CASE rule = 1 -> Triangle(distance, 0, 0, bird.closeness)
      [] rule = 2 -> Triangle(distance, bird.closeness, 2 * bird.closeness, 3 * bird.closeness)
      [] rule = 3 -> Triangle(distance, bird.closeness,
                              TDiv(bird.closeness + bird.influence, 2), bird.influence)

\* Bird.INTRA_BIRD_FUZZY_RULES[rule - 1].membershipFunction
intraBirdMembership(rule, bird, destinationBird) ==
    intraBirdTriangle(rule, bird, latticeDistance(bird, destinationBird))

\* a separation of one strength at every distance
pushEvenly(difference) ==
    newFromPolar(TDiv(Fx(maxAcceleration), 2), getBearing(difference))

\* newFromPolar(5000 / difference.getMagnitude(), difference.getBearing())
pushApart(difference) ==
    newFromPolar(FxDiv(Fx(TooCloseStrength), getMagnitude(difference)), getBearing(difference))

\* the vector each rule of Bird.INTRA_BIRD_FUZZY_RULES builds, nearestLattice
\* being findClosestLatticeLocation(bird.position, destinationBird.position)
intraBirdVector(rule, bird, destinationBird, nearestLattice) ==
    CASE rule = 1 -> pushApart(subtract(bird.position, nearestLattice))
      [] rule = 2 -> newFromPolar(TDiv(bird.maxAcceleration, 2),
                                  getBearing(subtract(nearestLattice, bird.position)))
      [] rule = 3 -> newFromPolar(bird.maxAcceleration, getBearing(destinationBird.velocity))

\* Bird.INTRA_BIRD_FUZZY_RULES[rule - 1].resultFunction
intraBirdResult(rule, bird, destinationBird) ==
    intraBirdVector(rule, bird, destinationBird,
                    findClosestLatticeLocation(bird.position, destinationBird.position))

\* Bird.PREDATOR_FUZZY_RULES[0]
predatorMembership(bird, pred) ==
    Triangle(latticeDistance(bird, pred), 0, 0, bird.influence * 2)

predatorResult(bird, pred) ==
    newFromPolar(bird.maxAcceleration * PredatorFactor,
                 getBearing(subtract(bird.position,
                                     findClosestLatticeLocation(bird.position, pred.position))))

(***************************************************************************)
(* Bird: considerBird, considerPredator, move                              *)
(***************************************************************************)
\* one round of the forEach of considerBird: out is [acceleration, memberships]
applyRule(out, membership, result) ==
    [acceleration |-> IF GreaterThanZero(membership)
                      THEN add(out.acceleration, scale(result, membership))
                      ELSE out.acceleration,
     memberships |-> Append(out.memberships, membership)]

RECURSIVE intraBirdRules(_, _, _, _)
\* the forEach of considerBird from rule `rule` on
intraBirdRules(this, bird, rule, out) ==
    IF rule > 3 THEN out
    ELSE intraBirdRules(this, bird, rule + 1,
             applyRule(out,
                       IF inFieldOfVision(this, bird)
                       THEN intraBirdMembership(rule, this, bird)
                       ELSE Zero,
                       intraBirdResult(rule, this, bird)))

\* Math.floor(255 * (1 - membership))
colorChannel(membership) ==
    IF membership.k = "num"
    THEN (255 * (membership.d - membership.n)) \div membership.d
    ELSE NotFinite

\* 'rgb(' + memberships.slice(0, 3).map(...).join(',') + ')'
rgb(memberships) == [c \in 1..3 |-> colorChannel(memberships[c])]

\* a considerBird after which the bird takes a step at once
consideredThenMoved(st, thisId, birdId, out) ==
    [st EXCEPT !.birds[thisId + 1].acceleration = out.acceleration,
               !.birds[thisId + 1].position = add(@, Vector(1, 0)),
               !.birds[birdId + 1].color = rgb(out.memberships),
               !.calls = Append(@, [self |-> thisId, other |-> birdId,
                                    memberships |-> out.memberships])]

\* the assignments of this.considerBird(bird): this gets the acceleration, bird
\* gets the color; st.calls records the call
considered(st, thisId, birdId, out) ==
    [st EXCEPT !.birds[thisId + 1].acceleration = out.acceleration,
               !.birds[birdId + 1].color = rgb(out.memberships),
               !.calls = Append(@, [self |-> thisId, other |-> birdId,
                                    memberships |-> out.memberships])]

\* this.considerBird(bird) for the birds with ids thisId and birdId of st.birds
considerBird(st, thisId, birdId) ==
    considered(st, thisId, birdId,
               intraBirdRules(BirdAt(st.birds, thisId), BirdAt(st.birds, birdId), 1,
                              [acceleration |-> BirdAt(st.birds, thisId).acceleration,
                               memberships |-> <<>>]))

\* the forEach of considerPredator over the one rule
applyPredatorRule(acceleration, membership, result) ==
    IF GreaterThanZero(membership) THEN add(acceleration, scale(result, membership))
    ELSE acceleration

\* a considerPredator that does not test predator.active
considerPredatorAlways(this, pred) ==
    applyPredatorRule(this.acceleration, predatorMembership(this, pred),
                      predatorResult(this, pred))

\* the acceleration of `this` after this.considerPredator(pred)
considerPredator(this, pred) ==
    IF pred.active
    THEN applyPredatorRule(this.acceleration, predatorMembership(this, pred),
                           predatorResult(this, pred))
    ELSE this.acceleration

\* what the history keeps of one considerPredator call
considerPredatorCall(this, pred) ==
    [bird |-> this.id, position |-> this.position, predator |-> pred,
     memberships |-> IF pred.active THEN <<predatorMembership(this, pred)>> ELSE <<>>]

\* the velocity of move before it is scaled back to the maximum
integrate(this, stepSize) == add(this.velocity, scale(this.acceleration, stepSize))

\* a clamp that scales every velocity to the maximum, the slow ones up
clampToMaximum(velocity, limit) == scale(velocity, JSDiv(limit, getMagnitude(velocity)))

\* velocity.scale(Math.min(1, maxVelocity / velocity.getMagnitude()))
clamp(velocity, limit) ==
    scale(velocity, MathMin(One, JSDiv(limit, getMagnitude(velocity))))

\* (p + period) % period
wrap(p, period) == IF IsFinite(p) THEN JSMod(p + period, period) ELSE NotFinite

wrapAround(position) ==
    Vector(wrap(position.x, canvas.width), wrap(position.y, canvas.height))

\* a move that also lowers the bird's maxVelocity to its speed
advanceAndTire(this, velocity, stepSize) ==
    [this EXCEPT !.velocity = velocity,
                 !.maxVelocity = getMagnitude(velocity),
                 !.position = wrapAround(add(this.position, scale(velocity, stepSize)))]

\* the last two assignments of move, the velocity being final
advance(this, velocity, stepSize) ==
    [this EXCEPT !.velocity = velocity,
                 !.position = wrapAround(add(this.position, scale(velocity, stepSize)))]

\* a move only birds that have been given a colour make
moveIfPainted(this, stepSize) ==
    IF Len(this.color) = 3
    THEN advance(this, clamp(integrate(this, stepSize), this.maxVelocity), stepSize)
    ELSE this

move(this, stepSize) ==
    advance(this, clamp(integrate(this, stepSize), this.maxVelocity), stepSize)

(***************************************************************************)
(* Environment: processBirds, processOrderedSet                            *)
(***************************************************************************)
\* the orders Array.prototype.sort can leave the birds in: ascending in the
\* dimension, birds that compare equal in any order
SortedOrders(bs, dimension) ==
    LET n == Len(bs)
    IN  { o \in [1..n -> 0..(n - 1)] :
            /\ \A a, b \in 1..n : a # b => o[a] # o[b]
            /\ \A a \in 1..n, b \in 1..n :
                 a < b => BirdAt(bs, o[a]).position[dimension]
                          <= BirdAt(bs, o[b]).position[dimension] }

\* a key that tells the pair (a, b) from the pair (b, a)
orderedKey(iBirdid, jBirdid) == <<iBirdid, jBirdid>>

pairHashKey(iBirdid, jBirdid) ==
    IF iBirdid < jBirdid THEN <<iBirdid, jBirdid>> ELSE <<jBirdid, iBirdid>>

\* dimensionSeparation > MAX && dimensionSeparation < canvas.height - MAX
tooFarApart(dimensionSeparation) ==
    /\ dimensionSeparation > Fx(MAX_COMPARABLE_DISTANCE)
    /\ dimensionSeparation < canvas.height - Fx(MAX_COMPARABLE_DISTANCE)

\* a comparison after which only the scanning bird considers the other
measuredOneWay(st, iBirdid, jBirdid, distance) ==
    IF IsFinite(distance) /\ distance < Fx(MAX_COMPARABLE_DISTANCE)
    THEN considerBird(st, iBirdid, jBirdid)
    ELSE st

\* the comparison of the distance with MAX_COMPARABLE_DISTANCE and what
\* follows it; st.compared records the pair and the distance
measured(st, iBirdid, jBirdid, distance) ==
    IF IsFinite(distance) /\ distance < Fx(MAX_COMPARABLE_DISTANCE)
    THEN considerBird(considerBird(st, iBirdid, jBirdid), jBirdid, iBirdid)
    ELSE st

\* one round of the inner for of processOrderedSet, the pair not considered
\* before and marked in st: the state it leaves; st.stops records the rounds
\* that set isOutOfRange
comparePair(st, i, j, iBirdid, jBirdid, dimension) ==
    IF tooFarApart(Abs(BirdAt(st.birds, iBirdid).position[dimension]
                       - BirdAt(st.birds, jBirdid).position[dimension]))
    THEN [st EXCEPT !.stops = Append(@, [dimension |-> dimension, i |-> i, j |-> j])]
    ELSE measured([st EXCEPT !.compared =
                       Append(@, [pair |-> pairHashKey(iBirdid, jBirdid),
                                  distance |-> getMagnitude(subtract(
                                      BirdAt(st.birds, i).position,
                                      BirdAt(st.birds, j).position))])],
                  iBirdid, jBirdid,
                  getMagnitude(subtract(BirdAt(st.birds, i).position,
                                        BirdAt(st.birds, j).position)))

\* isOutOfRange after that round
outOfRange(st, iBirdid, jBirdid, dimension) ==
    tooFarApart(Abs(BirdAt(st.birds, iBirdid).position[dimension]
                    - BirdAt(st.birds, jBirdid).position[dimension]))

\* one round of the inner for: a pair considered before is skipped;
\* st.rounds counts the rounds
round(st, i, j, iBirdid, jBirdid, dimension) ==
    IF pairHashKey(iBirdid, jBirdid) \in st.consideredPairs
    THEN [st EXCEPT !.rounds = @ + 1]
    ELSE comparePair([st EXCEPT !.rounds = @ + 1,
                                !.consideredPairs = @ \cup {pairHashKey(iBirdid, jBirdid)}],
                     i, j, iBirdid, jBirdid, dimension)

\* j = (i + 1) % count
startIndex(i, count) == (i + 1) % count

\* a scan that advances two places at a time
skipIndex(j, count) == (j + 2) % count

\* j = (j + 1) % count
nextIndex(j, count) == (j + 1) % count

RECURSIVE innerLoop(_, _, _, _, _, _)
\* the inner for of processOrderedSet at index j; st is
\* [birds, consideredPairs, calls, orders, rounds, compared, stops].  The loop
\* is followed for at most ScanLimit rounds of one processBirds.
innerLoop(orderedSet, dimension, i, j, isOutOfRange, st) ==
    IF i = j \/ isOutOfRange \/ st.rounds >= ScanLimit THEN st
    ELSE innerLoop(orderedSet, dimension, i, nextIndex(j, Len(orderedSet)),
                   /\ pairHashKey(orderedSet[i + 1], orderedSet[j + 1]) \notin st.consideredPairs
                   /\ outOfRange(st, orderedSet[i + 1], orderedSet[j + 1], dimension),
                   round(st, i, j, orderedSet[i + 1], orderedSet[j + 1], dimension))

RECURSIVE outerLoop(_, _, _, _)
outerLoop(orderedSet, dimension, i, st) ==
    IF i >= Len(orderedSet) THEN st
    ELSE outerLoop(orderedSet, dimension, i + 1,
                   innerLoop(orderedSet, dimension, i, startIndex(i, Len(orderedSet)),
                             FALSE, st))

processOrderedSet(orderedSet, dimension, st) == outerLoop(orderedSet, dimension, 0, st)

\* a resetBrain that leaves the acceleration as it is
keepBrain(this) == this

resetBrain(this) == [this EXCEPT !.acceleration = Vector(0, 0)]

\* processBirds, the two sorts leaving the orders byX and byY
processBirds(bs, byX, byY) ==
    processOrderedSet(byY, "y",
        processOrderedSet(byX, "x",
            [birds |-> [k \in 1..Len(bs) |-> resetBrain(bs[k])],
             consideredPairs |-> {}, calls |-> <<>>,
             orders |-> [x |-> byX, y |-> byY],
             rounds |-> 0, compared |-> <<>>, stops |-> <<>>]))

(***************************************************************************)
(* Inputs: canvas sizes, the outcomes of Math.random(), pointer positions  *)
(***************************************************************************)
Pixels(x, y) == Vector(Fx(x), Fx(y))

\* offsetWidth and offsetHeight of the canvas element
Canvases ==
    { [width |-> Fx(800), height |-> Fx(600)],
      [width |-> Fx(3), height |-> Fx(3)] }

\* the draws of one addBird call, by the position, velocity and maxVelocity
\* they give
RandomDraws ==
    { [position |-> Pixels(10, 300), velocity |-> Pixels(50, 0), maxVelocity |-> Fx(100)],
      [position |-> Pixels(790, 300), velocity |-> Pixels(-50, 0), maxVelocity |-> Fx(100)],
      [position |-> Pixels(100, 330), velocity |-> Pixels(-199, 150), maxVelocity |-> Fx(70)],
      [position |-> Pixels(0, 0), velocity |-> Pixels(-200, 0), maxVelocity |-> Fx(100)] }

\* clientX - rect.left, clientY - rect.top of a mouse event on the canvas
PointerPositions == { Pixels(10, 300), Vector(Fx(3) - 1, 0) }

InsideCanvas(p) == 0 <= p.x /\ p.x < canvas.width /\ 0 <= p.y /\ p.y < canvas.height

NoPosition == Vector(NotFinite, NotFinite)

\* no processBirds to remember
NoSweeps == [orders |-> [x |-> <<>>, y |-> <<>>], rounds |-> 0,
             compared |-> <<>>, stops |-> <<>>]

\* no engine run to remember
NoEngine == [rules |-> <<>>, results |-> <<>>, output |-> NoPosition]

\* 1 / frameRate, the argument run gives to move
frameStep == Rat(1, frameRate)

(***************************************************************************)
(* Actions                                                                 *)
(***************************************************************************)
\* state after new Environment(canvasElementId)
Init ==
    /\ canvas \in Canvases
    /\ windowEvent \in BOOLEAN
    /\ birds = <<>>
    /\ predator = Predator(0, 0, NotFinite)
    /\ pc = "seeding"
    /\ cursor = 0
    /\ ticks = 0
    /\ calls = <<>>
    /\ hunts = <<>>
    /\ press = [kind |-> "none", position |-> NoPosition]
    /\ sweeps = NoSweeps
    /\ engine = NoEngine

\* the bird addBird pushes
newBird(draw, id) ==
    [Bird EXCEPT !.position = draw.position,
                 !.velocity = draw.velocity,
                 !.acceleration = Vector(0, 0),
                 !.maxVelocity = draw.maxVelocity,
                 !.id = id]

\* Environment.prototype.addBird
AddBird ==
    /\ pc = "seeding"
    /\ Len(birds) < MaxBirds
    /\ \E draw \in RandomDraws :
         /\ InsideCanvas(draw.position)
         /\ birds' = Append(birds, newBird(draw, Len(birds)))
    /\ UNCHANGED <<canvas, windowEvent, predator, pc, cursor, ticks, calls, hunts, press, sweeps, engine>>

\* Environment.prototype.run: setInterval registers the callback and the
\* script that built the environment returns to the event loop
Run ==
    /\ pc = "seeding"
    /\ pc' = "idle"
    /\ UNCHANGED <<canvas, windowEvent, birds, predator, cursor, ticks, calls, hunts, press, sweeps, engine>>

\* an event loop that starts a listener while a callback is running
EventLoopPreempts == TRUE

\* a listener or the interval callback starts only when no other is running
EventLoopIdle == pc = "idle"

\* a processBirds that sorts env.birds itself, not a copy of it
sortedInPlace(st) ==
    /\ birds' = [k \in 1..Len(st.birds) |-> BirdAt(st.birds, st.orders.y[k])]
    /\ calls' = st.calls
    /\ sweeps' = [orders |-> st.orders, rounds |-> st.rounds,
                  compared |-> st.compared, stops |-> st.stops]

\* birds and calls after env.processBirds()
Processed(st) ==
    /\ birds' = st.birds
    /\ calls' = st.calls
    /\ sweeps' = [orders |-> st.orders, rounds |-> st.rounds,
                  compared |-> st.compared, stops |-> st.stops]

\* the interval callback up to its forEach: env.processBirds()
TickProcessBirds ==
    /\ EventLoopIdle
    /\ ticks < MaxTicks
    /\ \E byX \in SortedOrders(birds, "x"), byY \in SortedOrders(birds, "y") :
         Processed(processBirds(birds, byX, byY))
    /\ hunts' = <<>>
    /\ cursor' = 0
    /\ ticks' = ticks + 1
    /\ pc' = IF Len(birds) = 0 THEN "idle" ELSE "tick"
    /\ UNCHANGED <<canvas, windowEvent, predator, press, engine>>

\* a body that moves the bird first and considers the predator after
moveThenConsider(bird, pred) ==
    [move(bird, frameStep) EXCEPT !.acceleration = considerPredator(bird, pred)]

\* the body of the callback's forEach: considerPredator, then move
\* (eraseBird and drawBird only paint)
forEachBird(bird, pred) ==
    move([bird EXCEPT !.acceleration = considerPredator(bird, pred)], frameStep)

\* one round of the callback's forEach
TickBird ==
    /\ pc = "tick"
    /\ birds' = [birds EXCEPT ![cursor + 1] = forEachBird(BirdAt(birds, cursor), predator)]
    /\ hunts' = Append(hunts, considerPredatorCall(BirdAt(birds, cursor), predator))
    /\ cursor' = cursor + 1
    /\ pc' = IF cursor + 1 = Len(birds) THEN "idle" ELSE "tick"
    /\ sweeps' = NoSweeps
    /\ UNCHANGED <<canvas, windowEvent, predator, ticks, calls, press, engine>>

\* the mousemove listener
MouseMove ==
    /\ EventLoopIdle
    /\ \E p \in PointerPositions :
         /\ InsideCanvas(p)
         /\ predator' = [predator EXCEPT !.position = p]
    /\ UNCHANGED <<canvas, windowEvent, birds, pc, cursor, ticks, calls, hunts, press, sweeps, engine>>

\* the mousedown listener: it declares no parameter, so `event` is the global
\* window.event; on a host without it the read throws a ReferenceError and
\* the listener ends before it assigns anything
MouseDown ==
    /\ EventLoopIdle
    /\ \E p \in PointerPositions :
         /\ InsideCanvas(p)
         /\ predator' = IF windowEvent
                        THEN [position |-> p, active |-> TRUE]
                        ELSE predator
         /\ press' = [kind |-> "mousedown", position |-> p]
    /\ UNCHANGED <<canvas, windowEvent, birds, pc, cursor, ticks, calls, hunts, sweeps, engine>>

\* the mouseup listener
MouseUp ==
    /\ EventLoopIdle
    /\ predator' = [predator EXCEPT !.active = FALSE]
    /\ press' = [kind |-> "mouseup", position |-> NoPosition]
    /\ UNCHANGED <<canvas, windowEvent, birds, pc, cursor, ticks, calls, hunts, sweeps, engine>>

Next ==
    \/ AddBird
    \/ Run
    \/ TickProcessBirds
    \/ TickBird
    \/ MouseMove
    \/ MouseDown
    \/ MouseUp

Spec == Init /\ [][Next]_vars

(***************************************************************************)
(* Bird.inFieldOfVision and considerBird as functions of their arguments:  *)
(* fieldOfVision is a field of each bird, and SpecFov applies considerBird *)
(* to pairs of birds whose fieldOfVision is any of FieldsOfVision          *)
(***************************************************************************)
FieldsOfVision == { 45, 90, PI }

FovDraws ==
    { [position |-> Pixels(100, 330), velocity |-> Pixels(0, 50), maxVelocity |-> Fx(100)],
      [position |-> Pixels(100, 300), velocity |-> Pixels(0, 50), maxVelocity |-> Fx(100)],
      [position |-> Pixels(100, 330), velocity |-> Pixels(-199, 150), maxVelocity |-> Fx(70)],
      [position |-> Pixels(10, 300), velocity |-> Pixels(50, 0), maxVelocity |-> Fx(100)],
      [position |-> Pixels(790, 300), velocity |-> Pixels(-50, 0), maxVelocity |-> Fx(100)],
      [position |-> Pixels(100, 331), velocity |-> Pixels(50, 50), maxVelocity |-> Fx(100)] }

InitFov ==
    /\ canvas = [width |-> Fx(800), height |-> Fx(600)]
    /\ windowEvent = TRUE
    /\ \E one \in FovDraws, two \in FovDraws, fovOne \in FieldsOfVision, fovTwo \in FieldsOfVision :
         birds = << [newBird(one, 0) EXCEPT !.fieldOfVision = fovOne],
                    [newBird(two, 1) EXCEPT !.fieldOfVision = fovTwo] >>
    /\ predator = Predator(0, 0, NotFinite)
    /\ pc = "idle"
    /\ cursor = 0
    /\ ticks = 0
    /\ calls = <<>>
    /\ hunts = <<>>
    /\ press = [kind |-> "none", position |-> NoPosition]
    /\ sweeps = NoSweeps
    /\ engine = NoEngine

\* this.birds[thisId].considerBird(this.birds[birdId]), once
ConsiderBird ==
    /\ calls = <<>>
    /\ \E thisId \in {0, 1}, birdId \in {0, 1} :
         /\ thisId # birdId
         /\ Processed(considerBird([birds |-> birds, consideredPairs |-> {},
                                    calls |-> <<>>, orders |-> NoSweeps.orders,
                                    rounds |-> 0, compared |-> <<>>, stops |-> <<>>],
                                   thisId, birdId))
    /\ UNCHANGED <<canvas, windowEvent, predator, pc, cursor, ticks, hunts, press, engine>>

NextFov == ConsiderBird

SpecFov == InitFov /\ [][NextFov]_vars

(***************************************************************************)
(* Worlds at the edges of what the host can give: a canvas narrower than   *)
(* the step of one tick, a canvas without area (an element that is not     *)
(* laid out has offsetWidth and offsetHeight 0), and a canvas taller than  *)
(* twice MAX_COMPARABLE_DISTANCE.  SpecWorlds is Spec in these worlds.     *)
(***************************************************************************)
OtherCanvases ==
    { [width |-> Fx(3), height |-> Fx(3)],
      [width |-> 0, height |-> 0],
      [width |-> Fx(800), height |-> Fx(1200)] }

OtherDraws ==
    RandomDraws \cup
    { [position |-> Pixels(0, 0), velocity |-> Pixels(-200, 0), maxVelocity |-> Fx(129)] }

\* Math.random() * size: below size, and 0 when size is 0
RandomBelow(c, size) == 0 <= c /\ (c < size \/ c = 0)

InitWorlds ==
    /\ canvas \in OtherCanvases
    /\ windowEvent \in BOOLEAN
    /\ birds = <<>>
    /\ predator = Predator(0, 0, NotFinite)
    /\ pc = "seeding"
    /\ cursor = 0
    /\ ticks = 0
    /\ calls = <<>>
    /\ hunts = <<>>
    /\ press = [kind |-> "none", position |-> NoPosition]
    /\ sweeps = NoSweeps
    /\ engine = NoEngine

\* Environment.prototype.addBird in these worlds
AddBirdWorlds ==
    /\ pc = "seeding"
    /\ Len(birds) < MaxBirds
    /\ \E draw \in OtherDraws :
         /\ RandomBelow(draw.position.x, canvas.width)
         /\ RandomBelow(draw.position.y, canvas.height)
         /\ birds' = Append(birds, newBird(draw, Len(birds)))
    /\ UNCHANGED <<canvas, windowEvent, predator, pc, cursor, ticks, calls, hunts, press,
                   sweeps, engine>>

NextWorlds ==
    \/ AddBirdWorlds
    \/ Run
    \/ TickProcessBirds
    \/ TickBird
    \/ MouseMove
    \/ MouseDown
    \/ MouseUp

SpecWorlds == InitWorlds /\ [][NextWorlds]_vars

(***************************************************************************)
(* FuzzyLogicEngine (src/lib/FuzzyLogicEngine.js) with the combiner the     *)
(* Bird of src/unnamed/part_002 gives it.  The engine takes any rules; a    *)
(* rule is kept here as what its membershipFunction and its resultFunction  *)
(* return for the conditions of the run.  SpecEngine runs an engine once    *)
(* on each list of up to MaxRules such rules.                               *)
(***************************************************************************)
\* what results holds for a rule that does not apply
Null == <<>>

RECURSIVE processRules(_, _, _)
\* the forEach of run from rule k on
processRules(rules, k, results) ==
    IF k > Len(rules) THEN results
    ELSE processRules(rules, k + 1,
                      Append(results, IF GreaterThanZero(rules[k].membership)
                                      THEN <<rules[k].result>>
                                      ELSE Null))

RECURSIVE combineFrom(_, _, _)
\* the forEach of Bird.fuzzyResultCombiner from result k on
combineFrom(results, k, combined) ==
    IF k > Len(results) THEN combined
    ELSE combineFrom(results, k + 1,
                     IF results[k] # Null THEN add(combined, results[k][1]) ELSE combined)

fuzzyResultCombiner(results) == combineFrom(results, 1, Vector(0, 0))

\* FuzzyLogicEngine.prototype.run
run(rules) == fuzzyResultCombiner(processRules(rules, 1, <<>>))

\* values a membershipFunction returns
Memberships == { Zero, Rat(1, 2), One, NaNRatio }

\* vectors a resultFunction returns
Results == { Pixels(100, 0), Pixels(0, -50), Pixels(-30, 40) }

RuleLists ==
    UNION { [1..n -> [membership : Memberships, result : Results]] : n \in 1..MaxRules }

InitEngine ==
    /\ canvas = [width |-> Fx(800), height |-> Fx(600)]
    /\ windowEvent = TRUE
    /\ birds = <<>>
    /\ predator = Predator(0, 0, NotFinite)
    /\ pc = "idle"
    /\ cursor = 0
    /\ ticks = 0
    /\ calls = <<>>
    /\ hunts = <<>>
    /\ press = [kind |-> "none", position |-> NoPosition]
    /\ sweeps = NoSweeps
    /\ \E rules \in RuleLists :
         engine = [rules |-> rules, results |-> <<>>, output |-> NoPosition]

\* engine.run(conditions), once
EngineRun ==
    /\ engine.output = NoPosition
    /\ engine' = [engine EXCEPT !.results = processRules(engine.rules, 1, <<>>),
                                !.output = run(engine.rules)]
    /\ UNCHANGED <<canvas, windowEvent, birds, predator, pc, cursor, ticks, calls, hunts,
                   press, sweeps>>

NextEngine == EngineRun

SpecEngine == InitEngine /\ [][NextEngine]_vars

(***************************************************************************)
(* One tick more: SpecTicks follows the interval callback for MaxTicks + 1  *)
(* ticks in the 800x600 world of a host that defines window.event, with    *)
(* presses and releases of the mouse between the ticks.                    *)
(***************************************************************************)
InitTicks ==
    /\ canvas = [width |-> Fx(800), height |-> Fx(600)]
    /\ windowEvent = TRUE
    /\ birds = <<>>
    /\ predator = Predator(0, 0, NotFinite)
    /\ pc = "seeding"
    /\ cursor = 0
    /\ ticks = 0
    /\ calls = <<>>
    /\ hunts = <<>>
    /\ press = [kind |-> "none", position |-> NoPosition]
    /\ sweeps = NoSweeps
    /\ engine = NoEngine

\* the draws of addBird followed here: two birds that are within each
\* other's influence
TickDraws ==
    { [position |-> Pixels(100, 330), velocity |-> Pixels(-199, 150), maxVelocity |-> Fx(70)],
      [position |-> Pixels(10, 300), velocity |-> Pixels(50, 0), maxVelocity |-> Fx(100)] }

\* Environment.prototype.addBird with these draws
AddBirdTicks ==
    /\ pc = "seeding"
    /\ Len(birds) < MaxBirds
    /\ \E draw \in TickDraws : birds' = Append(birds, newBird(draw, Len(birds)))
    /\ UNCHANGED <<canvas, windowEvent, predator, pc, cursor, ticks, calls, hunts, press,
                   sweeps, engine>>

\* the interval callback up to its forEach, for one tick more
TickProcessBirdsAgain ==
    /\ EventLoopIdle
    /\ ticks <= MaxTicks
    /\ \E byX \in SortedOrders(birds, "x"), byY \in SortedOrders(birds, "y") :
         Processed(processBirds(birds, byX, byY))
    /\ hunts' = <<>>
    /\ cursor' = 0
    /\ ticks' = ticks + 1
    /\ pc' = IF Len(birds) = 0 THEN "idle" ELSE "tick"
    /\ UNCHANGED <<canvas, windowEvent, predator, press, engine>>

NextTicks ==
    \/ AddBirdTicks
    \/ Run
    \/ TickProcessBirdsAgain
    \/ TickBird
    \/ MouseDown
    \/ MouseUp

SpecTicks == InitTicks /\ [][NextTicks]_vars

(***************************************************************************)
(* Properties                                                              *)
(***************************************************************************)
BirdIds == 0..(Len(birds) - 1)

\* processBirds has returned and no bird of this tick has moved yet
AfterProcessBirds == pc = "tick" /\ cursor = 0

\* every bird has moved in the latest tick
AfterTick == pc = "idle" /\ ticks > 0

WithinMaximum(velocity, limit) ==
    IsFinite(getMagnitude(velocity)) /\ getMagnitude(velocity) <= limit

\* the step of one bird through considerPredator and move: its velocity ends
\* within its maxVelocity, and is the integrated velocity if that is within
ClampStep ==
    pc = "tick" =>
        LET before == birds[cursor + 1]
            after == birds'[cursor + 1]
            integrated == integrate([before EXCEPT !.acceleration = after.acceleration],
                                    frameStep)
        IN  /\ WithinMaximum(after.velocity, before.maxVelocity)
            /\ WithinMaximum(integrated, before.maxVelocity) => after.velocity = integrated

AllWithinMaximum ==
    AfterTick => \A k \in BirdIds :
                   WithinMaximum(BirdAt(birds, k).velocity, BirdAt(birds, k).maxVelocity)

\* C1: after every tick the magnitude of each bird's velocity is at most its
\* maxVelocity, whatever the acceleration and the initial velocity were, and
\* a velocity that is within maxVelocity after integration is left as it is
VelocityClamp == []AllWithinMaximum /\ [][ClampStep]_vars

\* C1: a tick has ended with one bird at its maxVelocity (it was seeded
\* faster, at 200 pixels per second) and another well below its own
VelocityClampWitness ==
    /\ AfterTick
    /\ \E k \in BirdIds : /\ BirdAt(birds, k).maxVelocity = Fx(100)
                          /\ getMagnitude(BirdAt(birds, k).velocity) > Fx(99)
    /\ \E k \in BirdIds : /\ getMagnitude(BirdAt(birds, k).velocity) > Fx(40)
                          /\ getMagnitude(BirdAt(birds, k).velocity) < Fx(60)

\* C2: in every state every bird's position is inside the canvas:
\* 0 <= x < width and 0 <= y < height
PositionInsideCanvas == \A k \in BirdIds : InsideCanvas(BirdAt(birds, k).position)

\* the shorter way round between two coordinates of a world of the given period
wrappedSeparation(p, q, period) ==
    IF Abs(p - q) < period - Abs(p - q) THEN Abs(p - q) ELSE period - Abs(p - q)

toroidalDistance(a, b) ==
    getMagnitude(Vector(wrappedSeparation(a.position.x, b.position.x, canvas.width),
                        wrappedSeparation(a.position.y, b.position.y, canvas.height)))

rawDistance(a, b) == getMagnitude(subtract(a.position, b.position))

\* the unordered pairs considerBird was called on in the latest processBirds
ConsideredPairs == { pairHashKey(calls[c].self, calls[c].other) : c \in 1..Len(calls) }

\* the pairs a filter of all pairs by toroidal distance selects
BruteForcePairs ==
    { pair \in BirdIds \X BirdIds :
        /\ pair[1] < pair[2]
        /\ toroidalDistance(BirdAt(birds, pair[1]), BirdAt(birds, pair[2]))
           < Fx(MAX_COMPARABLE_DISTANCE) }

\* C3: the pairs processBirds calls considerBird on are the pairs within
\* MAX_COMPARABLE_DISTANCE of each other by toroidal distance
PruningEquivalence == AfterProcessBirds => ConsideredPairs = BruteForcePairs

\* a and b lie across an edge from each other, closer than a's closeness the
\* short way round, and each sees the other
AcrossEdge(a, b) ==
    /\ a # b
    /\ toroidalDistance(BirdAt(birds, a), BirdAt(birds, b))
       < rawDistance(BirdAt(birds, a), BirdAt(birds, b))
    /\ toroidalDistance(BirdAt(birds, a), BirdAt(birds, b)) < BirdAt(birds, a).closeness
    /\ inFieldOfVision(BirdAt(birds, a), BirdAt(birds, b))
    /\ inFieldOfVision(BirdAt(birds, b), BirdAt(birds, a))

\* C4: after processBirds each of two birds that are close across an edge
\* and see each other has received a separation contribution from the other
SeparationAcrossEdges ==
    AfterProcessBirds =>
        \A a \in BirdIds, b \in BirdIds :
            AcrossEdge(a, b) =>
                \E c \in 1..Len(calls) : /\ calls[c].self = a
                                         /\ calls[c].other = b
                                         /\ GreaterThanZero(calls[c].memberships[1])

\* the scenario of C5: bird a is A and bird b is B
EdgeScenario(a, b) ==
    /\ canvas = [width |-> Fx(800), height |-> Fx(600)]
    /\ BirdAt(birds, a).position = Pixels(10, 300)
    /\ BirdAt(birds, a).velocity = Pixels(50, 0)
    /\ BirdAt(birds, b).position = Pixels(790, 300)
    /\ BirdAt(birds, b).velocity = Pixels(-50, 0)

\* C5: in the 800x600 world, for A at (10,300) and B at (790,300), the
\* distance of the separation rule is 20 in both directions and its
\* membership is above 0 in both directions
ScenarioDistance ==
    \A a \in BirdIds, b \in BirdIds :
        EdgeScenario(a, b) =>
            /\ latticeDistance(BirdAt(birds, a), BirdAt(birds, b)) = Fx(20)
            /\ latticeDistance(BirdAt(birds, b), BirdAt(birds, a)) = Fx(20)
            /\ GreaterThanZero(intraBirdMembership(1, BirdAt(birds, a), BirdAt(birds, b)))
            /\ GreaterThanZero(intraBirdMembership(1, BirdAt(birds, b), BirdAt(birds, a)))

\* C5: the two birds of the scenario have been seeded
ScenarioDistanceWitness == \E a \in BirdIds, b \in BirdIds : EdgeScenario(a, b)

\* the angle between two bearings, the shorter way round
angularDifference(headingOne, headingTwo) ==
    IF Abs(headingOne - headingTwo) > PI
    THEN 2 * PI - Abs(headingOne - headingTwo)
    ELSE Abs(headingOne - headingTwo)

\* the neighbour is outside the field of vision of the source
OutsideFieldOfVision(sourceBird, destinationBird) ==
    angularDifference(getBearing(sourceBird.velocity),
                      getBearing(subtract(destinationBird.position, sourceBird.position)))
    > sourceBird.fieldOfVision

\* C6: a.considerBird(b) adds nothing to a's acceleration when the angle
\* between a's heading and the bearing from a to b exceeds a.fieldOfVision
FieldOfVisionExclusion ==
    \A c \in 1..Len(calls) :
        OutsideFieldOfVision(BirdAt(birds, calls[c].self), BirdAt(birds, calls[c].other))
            => BirdAt(birds, calls[c].self).acceleration = Vector(0, 0)

\* positions a predator can be at: on a bird, next to it, far away, nowhere
PredatorPlaces ==
    PointerPositions \cup { Pixels(100, 330), Pixels(790, 300), NoPosition }
        \cup { add(BirdAt(birds, k).position, Vector(1, 0)) : k \in BirdIds }

\* a step of one bird under an inactive predator: considerPredator leaves the
\* acceleration as it is, and the bird ends where it would for any other
\* position of the predator
DormantStep ==
    (pc = "tick" /\ ~predator.active) =>
        /\ birds'[cursor + 1].acceleration = birds[cursor + 1].acceleration
        /\ \A p \in PredatorPlaces :
             birds'[cursor + 1] = forEachBird(birds[cursor + 1],
                                              [position |-> p, active |-> FALSE])

\* C7: while predator.active is false considerPredator leaves the
\* acceleration unchanged wherever the predator is, and the birds move as
\* they would for any other position of the predator
PredatorDormancy == [][DormantStep]_vars

\* C7: a bird has moved in a tick while an inactive predator was exactly on it
PredatorDormancyWitness ==
    \E h \in 1..Len(hunts) : /\ ~hunts[h].predator.active
                             /\ hunts[h].predator.position = hunts[h].position
                             /\ hunts[h].memberships = <<>>

\* C8: considerPredator with an active predator exactly on the bird evaluates
\* the membership of the predator rule to 1
MaximumAtZeroDistance ==
    \A h \in 1..Len(hunts) :
        (hunts[h].predator.active /\ hunts[h].predator.position = hunts[h].position)
            => /\ Len(hunts[h].memberships) = 1
               /\ RatEq(hunts[h].memberships[1], One)

\* C9: the predator is active exactly when the latest of the mousedown and
\* mouseup events was a mousedown
ActiveIffPressed == predator.active <=> press.kind = "mousedown"

\* every considerPredator call of a tick got the same predator
SamePredatorThroughTick ==
    \A g \in 1..Len(hunts), h \in 1..Len(hunts) : hunts[g].predator = hunts[h].predator

\* no pointer event takes effect before the last bird of a tick is done, and
\* when the predator becomes active it is at the position of the press
AtomicStep ==
    /\ pc = "tick" => predator' = predator /\ press' = press
    /\ (predator'.active /\ ~predator.active) =>
           /\ press'.kind = "mousedown"
           /\ predator'.position = press'.position

\* C10: all considerPredator calls of one tick see the same predator position
\* and active flag, and a press sets position and active in one step
PredatorObservedAtomically == []SamePredatorThroughTick /\ [][AtomicStep]_vars

\* C10: a tick of two birds has run with the predator active after a press
PredatorObservedAtomicallyWitness ==
    /\ Len(hunts) = 2
    /\ hunts[1].predator.active
    /\ hunts[2].predator.active
    /\ press.kind = "mousedown"

\* the point is within half the world of the origin on each axis
WithinHalfWorld(origin, point) ==
    /\ 2 * Abs(point.x - origin.x) <= canvas.width
    /\ 2 * Abs(point.y - origin.y) <= canvas.height

FinitePosition(p) == IsFinite(p.x) /\ IsFinite(p.y)

\* the positions the birds and the predator are at
OccupiedPositions ==
    { BirdAt(birds, k).position : k \in BirdIds } \cup { predator.position }

\* C11: for all positions origin and destination that a bird or the predator
\* is at, findClosestLatticeLocation(origin, destination) is within width/2
\* and height/2 of origin
LatticeWithinHalfWorld ==
    \A origin \in OccupiedPositions, destination \in OccupiedPositions :
        (FinitePosition(origin) /\ FinitePosition(destination))
            => WithinHalfWorld(origin, findClosestLatticeLocation(origin, destination))

\* C12: a world whose canvas has a non-positive width or height is never
\* seeded or ticked
InvalidWorldRejected ==
    (canvas.width <= 0 \/ canvas.height <= 0) => (birds = <<>> /\ ticks = 0)

\* C13: processBirds returns for every number of birds: the inner scan of
\* processOrderedSet runs at most count - 1 rounds for each i of each of the
\* two sweeps, none at all for no bird or one bird, and the forEach of the
\* callback never runs past the last bird
ScanTerminates ==
    /\ sweeps.rounds <= 2 * Len(birds) * (Len(birds) - 1)
    /\ sweeps.rounds < ScanLimit
    /\ cursor <= Len(birds)
    /\ pc = "tick" => cursor < Len(birds)

\* C13: processBirds has returned for two birds after scanning every pair in
\* both sweeps, the pairs of the second sweep all visited before
ScanTerminatesWitness ==
    /\ AfterProcessBirds
    /\ Len(birds) = 2
    /\ sweeps.rounds = 4
    /\ Len(sweeps.compared) = 1

RECURSIVE scaledSum(_, _)
\* the sum of the results of the rules from k on that apply, each scaled by
\* its membership
scaledSum(rules, k) ==
    IF k > Len(rules) THEN Vector(0, 0)
    ELSE add(IF GreaterThanZero(rules[k].membership)
             THEN scale(rules[k].result, rules[k].membership)
             ELSE Vector(0, 0),
             scaledSum(rules, k + 1))

\* C14: the output of an engine run is the sum, over the rules whose
\* membership is above 0, of the rule's result scaled by its membership
EngineOutputScaled ==
    engine.output # NoPosition => engine.output = scaledSum(engine.rules, 1)

\* every bird is at the index that is its id
IdsAreIndices == \A k \in BirdIds : BirdAt(birds, k).id = k

\* no step changes the id of a bird or removes a bird, and a bird that is
\* added gets the number of birds before it as its id
IdStep ==
    /\ Len(birds') >= Len(birds)
    /\ \A k \in BirdIds : BirdAt(birds', k).id = BirdAt(birds, k).id
    /\ \A k \in Len(birds)..(Len(birds') - 1) : BirdAt(birds', k).id = k

\* C15: the ids of the birds are 0, 1, 2, ... in the order of the addBird
\* calls, pairwise distinct, never change, and env.birds[k].id = k in every
\* state: the sorts of processBirds do not reorder env.birds
IdsStable == []IdsAreIndices /\ [][IdStep]_vars

\* C15: a tick of two birds is over whose sorted order by x was the reverse
\* of their order in env.birds
IdsStableWitness ==
    /\ AfterTick
    /\ Len(birds) = 2
    /\ BirdAt(birds, 1).position.x < BirdAt(birds, 0).position.x
    /\ BirdAt(birds, 0).id = 0
    /\ BirdAt(birds, 1).id = 1

\* what this.considerBird(bird) adds to an acceleration of zero
peerInfluence(this, bird) ==
    intraBirdRules(this, bird, 1, [acceleration |-> Vector(0, 0), memberships |-> <<>>])
        .acceleration

\* the neighbour moved to the given offset from this bird
farNeighbour(this, bird, offset) ==
    [bird EXCEPT !.position = wrapAround(add(this.position, offset))]

\* offsets of length 1.5 * closeness
FarOffsets ==
    LET far == TDiv(3 * Fx(closeness), 2)
    IN  { Vector(far, 0), Vector(-far, 0), Vector(0, far), Vector(0, -far) }

\* the neighbour is visible and no more than two pixels away, but not on
\* the bird
VeryClose(this, bird) ==
    /\ inFieldOfVision(this, bird)
    /\ latticeDistance(this, bird) > 0
    /\ latticeDistance(this, bird) <= Fx(2)

\* C16: the acceleration considerBird gives a bird whose visible neighbour is
\* at a very small distance is larger in magnitude than the acceleration it
\* gives the bird for that neighbour at distance 1.5 * closeness
SeparationDominance ==
    \A c \in 1..Len(calls) :
        VeryClose(BirdAt(birds, calls[c].self), BirdAt(birds, calls[c].other)) =>
            \A offset \in FarOffsets :
                getMagnitude(BirdAt(birds, calls[c].self).acceleration)
                > getMagnitude(peerInfluence(BirdAt(birds, calls[c].self),
                                             farNeighbour(BirdAt(birds, calls[c].self),
                                                          BirdAt(birds, calls[c].other),
                                                          offset)))

\* C16: considerBird has run for a bird whose neighbour is one pixel away,
\* and the same neighbour at 1.5 * closeness would be visible and would
\* attract the bird
SeparationDominanceWitness ==
    \E c \in 1..Len(calls) :
        /\ VeryClose(BirdAt(birds, calls[c].self), BirdAt(birds, calls[c].other))
        /\ GreaterThanZero(calls[c].memberships[1])
        /\ \E offset \in FarOffsets :
             /\ inFieldOfVision(BirdAt(birds, calls[c].self),
                                farNeighbour(BirdAt(birds, calls[c].self),
                                             BirdAt(birds, calls[c].other), offset))
             /\ getMagnitude(peerInfluence(BirdAt(birds, calls[c].self),
                                           farNeighbour(BirdAt(birds, calls[c].self),
                                                        BirdAt(birds, calls[c].other),
                                                        offset))) > Fx(100)

\* C17: in a world of positive width and height the acceleration, velocity
\* and position of every bird are finite in every state, also after a tick in
\* which two birds were at the same position or the active predator was on
\* a bird: the NaN membership of distance 0 never reaches them
PhysicsStaysFinite ==
    (canvas.width > 0 /\ canvas.height > 0) =>
        \A k \in BirdIds : /\ FinitePosition(BirdAt(birds, k).acceleration)
                            /\ FinitePosition(BirdAt(birds, k).velocity)
                            /\ FinitePosition(BirdAt(birds, k).position)

\* C17: a tick is over in which a bird considered a bird at its own position
\* and the active predator was on a bird, both memberships being NaN
PhysicsStaysFiniteWitness ==
    /\ AfterTick
    /\ \E c \in 1..Len(calls) : calls[c].memberships[1].k = "nan"
    /\ \E h \in 1..Len(hunts) : /\ hunts[h].predator.active
                                 /\ hunts[h].predator.position = hunts[h].position
                                 /\ hunts[h].memberships[1].k = "nan"

\* C18: the distance processOrderedSet compares with MAX_COMPARABLE_DISTANCE
\* for a pair is the toroidal distance between the two birds whose ids make
\* the pair's key, and considerBird is called on the pair exactly when that
\* distance is at most MAX_COMPARABLE_DISTANCE
DistanceOfThePair ==
    AfterProcessBirds =>
        \A c \in 1..Len(sweeps.compared) :
            /\ sweeps.compared[c].distance
               = toroidalDistance(BirdAt(birds, sweeps.compared[c].pair[1]),
                                  BirdAt(birds, sweeps.compared[c].pair[2]))
            /\ sweeps.compared[c].pair \in ConsideredPairs
               <=> sweeps.compared[c].distance <= Fx(MAX_COMPARABLE_DISTANCE)

\* the indices from j up to the one before i, going round the sorted order
laterInOrder(i, j, count) == { (j + n) % count : n \in 0..(((i - j + count) % count) - 1) }

\* the period of the world in a dimension
periodOf(dimension) == IF dimension = "x" THEN canvas.width ELSE canvas.height

\* the birds at two indices of a sorted order are farther apart than
\* MAX_COMPARABLE_DISTANCE in the dimension, the short way round
BeyondReach(order, dimension, i, n) ==
    wrappedSeparation(BirdAt(birds, order[i + 1]).position[dimension],
                      BirdAt(birds, order[n + 1]).position[dimension],
                      periodOf(dimension))
    > Fx(MAX_COMPARABLE_DISTANCE)

\* C19: when the scan from the bird at index i of a sweep stops early at
\* index j, no bird from j on in the circular order is within
\* MAX_COMPARABLE_DISTANCE of it in the swept dimension, the wrap counted
StopsOnlyBeyondReach ==
    AfterProcessBirds =>
        \A s \in 1..Len(sweeps.stops) :
            \A n \in laterInOrder(sweeps.stops[s].i, sweeps.stops[s].j,
                                   Len(sweeps.orders[sweeps.stops[s].dimension])) :
                BeyondReach(sweeps.orders[sweeps.stops[s].dimension],
                            sweeps.stops[s].dimension, sweeps.stops[s].i, n)

MutualConsideration ==
    \A c \in 1..Len(calls) :
        /\ calls[c].self # calls[c].other
        /\ \E d \in 1..Len(calls) : /\ calls[d].self = calls[c].other
                                     /\ calls[d].other = calls[c].self

\* C21: processBirds has made its calls for a pair whose scanning bird was
\* the one with the higher id
MutualConsiderationWitness ==
    /\ AfterProcessBirds
    /\ Len(calls) = 2
    /\ calls[1].self = 1
    /\ calls[1].other = 0

RECURSIVE peerSum(_, _, _, _)
\* the sum of what the calls cs from the k-th on give the bird with id a,
\* each computed from the birds bs
peerSum(bs, cs, a, k) ==
    IF k > Len(cs) THEN Vector(0, 0)
    ELSE add(IF cs[k].self = a
             THEN peerInfluence(BirdAt(bs, a), BirdAt(bs, cs[k].other))
             ELSE Vector(0, 0),
             peerSum(bs, cs, a, k + 1))

\* processBirds moves no bird and leaves every bird the sum of the
\* contributions computed from the birds as they were before it
ProcessStep ==
    ticks' # ticks =>
        \A k \in BirdIds :
            /\ BirdAt(birds', k).position = BirdAt(birds, k).position
            /\ BirdAt(birds', k).velocity = BirdAt(birds, k).velocity
            /\ BirdAt(birds', k).acceleration = peerSum(birds, calls', k, 1)

\* a round of the callback's forEach makes no considerBird call, changes
\* only the bird of the round, and its considerPredator reads the position
\* that bird had before the round
MoveStep ==
    pc = "tick" =>
        /\ calls' = calls
        /\ \A k \in BirdIds : k # cursor => BirdAt(birds', k) = BirdAt(birds, k)
        /\ Len(hunts') = cursor + 1
        /\ hunts'[cursor + 1].bird = cursor
        /\ hunts'[cursor + 1].position = BirdAt(birds, cursor).position
        /\ hunts'[cursor + 1].predator = predator

\* C22: in a tick every contribution to an acceleration is computed from the
\* positions and velocities of the start of the tick: all considerBird calls
\* are over before the first bird moves, and considerPredator reads the
\* position of its own bird, which has not moved yet
SnapshotOfTheTick == [][ProcessStep /\ MoveStep]_vars

\* C22: a tick of two birds is over in which the birds considered each other
\* and the second bird fled from the active predator after the first had
\* moved
SnapshotOfTheTickWitness ==
    /\ AfterTick
    /\ Len(calls) = 2
    /\ Len(hunts) = 2
    /\ hunts[2].predator.active
    /\ GreaterThanZero(hunts[2].memberships[1])
    /\ BirdAt(birds, 0).position # hunts[1].position

\* the considerPredator calls of a tick are one for each bird that has had
\* its round, in the order of env.birds
HuntsInOrder ==
    /\ pc = "tick" => Len(hunts) = cursor
    /\ AfterTick => Len(hunts) = Len(birds)
    /\ \A h \in 1..Len(hunts) : hunts[h].bird = h - 1

\* the order of the steps of one bird in a tick
OrderStep ==
    /\ ticks' # ticks =>
           /\ hunts' = <<>>
           /\ cursor' = 0
           /\ \A k \in BirdIds :
                BirdAt(birds', k).acceleration = peerSum(birds, calls', k, 1)
    /\ pc = "tick" =>
           /\ cursor' = cursor + 1
           /\ BirdAt(birds', cursor).acceleration
              = considerPredator(BirdAt(birds, cursor), predator)
           /\ BirdAt(birds', cursor)
              = move([BirdAt(birds, cursor) EXCEPT
                         !.acceleration = BirdAt(birds', cursor).acceleration], frameStep)
    /\ \A k \in BirdIds :
           /\ (\/ BirdAt(birds', k).position # BirdAt(birds, k).position
               \/ BirdAt(birds', k).velocity # BirdAt(birds, k).velocity)
                  => (pc = "tick" /\ k = cursor)
           /\ BirdAt(birds', k).acceleration # BirdAt(birds, k).acceleration
                  => (ticks' # ticks \/ (pc = "tick" /\ k = cursor))

\* C23: in every tick each bird's acceleration is reset, then receives the
\* contributions of its peers, then considerPredator is applied to it once,
\* then it moves once, with the acceleration it keeps: nothing is added to
\* the acceleration of a bird that has moved in the tick
StepsInOrder == []HuntsInOrder /\ [][OrderStep]_vars

\* C23: the first of two birds has had its round of a tick, with a peer
\* contribution and a contribution of the active predator, and the second
\* has not
StepsInOrderWitness ==
    /\ pc = "tick"
    /\ cursor = 1
    /\ Len(calls) = 2
    /\ \E c \in 1..2 : calls[c].self = 0 /\ \E r \in 1..3 : GreaterThanZero(calls[c].memberships[r])
    /\ Len(hunts) = 1
    /\ hunts[1].predator.active
    /\ GreaterThanZero(hunts[1].memberships[1])

\* the bird with id k was considered by nobody's rules in the latest tick:
\* it made no considerBird call, and the predator was inactive in its round
Undisturbed(k) ==
    /\ \A c \in 1..Len(calls) : calls[c].self # k
    /\ \A h \in 1..Len(hunts) : hunts[h].bird = k => ~hunts[h].predator.active

\* a bird nothing acted on in the latest tick has zero acceleration
UndisturbedAtRest ==
    \A k \in BirdIds :
        (ticks > 0 /\ Undisturbed(k)) => BirdAt(birds, k).acceleration = Vector(0, 0)

\* processBirds builds every acceleration from zero, whatever it was before,
\* and a bird whose acceleration is zero moves with the velocity it had
FreshStep ==
    /\ ticks' # ticks =>
           \A k \in BirdIds :
               BirdAt(birds', k).acceleration = peerSum(birds, calls', k, 1)
    /\ (pc = "tick" /\ BirdAt(birds', cursor).acceleration = Vector(0, 0)) =>
           BirdAt(birds', cursor).velocity
           = clamp(BirdAt(birds, cursor).velocity, BirdAt(birds, cursor).maxVelocity)

\* C24: every tick sets each acceleration to zero before it adds to it, so
\* the acceleration a bird moves with comes from the current tick only, and
\* a bird with no neighbour considered and an inactive predator moves with
\* zero acceleration
AccelerationFromScratch == []UndisturbedAtRest /\ [][FreshStep]_vars

\* the velocities of birds that were never accelerated
SeededVelocities == { clamp(draw.velocity, draw.maxVelocity) : draw \in TickDraws }

\* C24: a second tick is over in which nothing acted on the only bird, which
\* is at rest although an earlier tick changed its velocity
AccelerationFromScratchWitness ==
    /\ AfterTick
    /\ ticks = MaxTicks + 1
    /\ Len(birds) = 1
    /\ Undisturbed(0)
    /\ BirdAt(birds, 0).acceleration = Vector(0, 0)
    /\ BirdAt(birds, 0).velocity \notin SeededVelocities

\* the membership of the rule is not 0
NotZero(rule) == ~RatEq(rule.membership, Zero)

\* C25: a rule whose membership is 0 adds nothing to a run of the engine:
\* its resultFunction is not called (its place in results is null) and the
\* output is the output of the engine without the rule
ZeroMembershipSkipped ==
    engine.output # NoPosition =>
        /\ \A k \in 1..Len(engine.rules) :
               RatEq(engine.rules[k].membership, Zero) => engine.results[k] = Null
        /\ engine.output = run(SelectSeq(engine.rules, NotZero))

\* C25: an engine has run on a rule with membership 0 followed by a rule
\* that applies
ZeroMembershipSkippedWitness ==
    /\ engine.output # NoPosition
    /\ Len(engine.rules) = 2
    /\ RatEq(engine.rules[1].membership, Zero)
    /\ GreaterThanZero(engine.rules[2].membership)
    /\ engine.results[2] # Null

\* ((p % period) + period) % period
referenceWrap(p, period) ==
    IF IsFinite(p) /\ IsFinite(JSMod(p, period))
    THEN JSMod(JSMod(p, period) + period, period)
    ELSE NotFinite

\* the position of the bird of the round before move wraps it
Unwrapped ==
    add(BirdAt(birds, cursor).position, scale(BirdAt(birds', cursor).velocity, frameStep))

\* the wrap of move gives what the reference gives
WrapStep ==
    pc = "tick" =>
        /\ BirdAt(birds', cursor).position.x = referenceWrap(Unwrapped.x, canvas.width)
        /\ BirdAt(birds', cursor).position.y = referenceWrap(Unwrapped.y, canvas.height)

\* C26: for every coordinate p = position + velocity * dt and every period
\* the wrap of move gives ((p % period) + period) % period
WrapAsReference == [][WrapStep]_vars

\* the ratio is a number of [0, 1]
InUnitInterval(r) == r.k = "num" /\ 0 <= r.n /\ r.n <= r.d

\* the distances a bird's rules measure to the other birds and the predator
MeasuredDistances ==
    { latticeDistance(BirdAt(birds, pair[1]), BirdAt(birds, pair[2])) :
          pair \in { q \in BirdIds \X BirdIds : q[1] # q[2] } }
    \cup { latticeDistance(BirdAt(birds, a), predator) : a \in BirdIds }

\* the parameter lists a <= b <= c <= d the rules of a bird give the shapes
ParameterLists ==
    { <<0, 0, Fx(closeness), 2 * Fx(influence)>>,
      <<Fx(closeness), 2 * Fx(closeness), 3 * Fx(closeness), 3 * Fx(closeness)>>,
      <<Fx(closeness), TDiv(Fx(closeness) + Fx(influence), 2), Fx(influence),
        2 * Fx(influence)>> }

\* C27: Triangle, Trapezoid and Square return a value of [0, 1] for every
\* distance the rules measure and every parameter list a <= b <= c <= d,
\* a = b = 0 and a distance equal to a included
MembershipInUnitInterval ==
    \A x \in MeasuredDistances, p \in ParameterLists :
        IsFinite(x) =>
            /\ InUnitInterval(Triangle(x, p[1], p[2], p[3]))
            /\ InUnitInterval(Trapezoid(x, p[1], p[2], p[3], p[4]))
            /\ InUnitInterval(Square(x, p[1], p[2]))

\* the two birds differ in nothing but the fields given
SameBut(after, before, fields) ==
    \A f \in DOMAIN before : f \notin fields => after[f] = before[f]

\* what the steps of a tick leave alone
FrameStep ==
    /\ (ticks' # ticks \/ pc = "tick") =>
           /\ canvas' = canvas
           /\ predator' = predator
           /\ Len(birds') = Len(birds)
    /\ ticks' # ticks =>
           \A k \in BirdIds :
               /\ SameBut(BirdAt(birds', k), BirdAt(birds, k), {"acceleration", "color"})
               /\ BirdAt(birds', k).acceleration = peerSum(birds, calls', k, 1)
    /\ pc = "tick" =>
           \A k \in BirdIds :
               IF k = cursor
               THEN SameBut(BirdAt(birds', k), BirdAt(birds, k),
                            {"acceleration", "velocity", "position"})
               ELSE BirdAt(birds', k) = BirdAt(birds, k)

\* C28: considerBird and considerPredator change no position, velocity or
\* acceleration but the acceleration of the bird that considers, move changes
\* only the velocity and the position of the bird that moves, and none of
\* them changes the canvas, the number of birds or the predator
AgentsLeaveTheWorldAlone == [][FrameStep]_vars

\* C28: a tick of two birds is over in which each considered the other and
\* the first fled from the active predator
AgentsLeaveTheWorldAloneWitness ==
    /\ AfterTick
    /\ predator.active
    /\ Len(calls) = 2
    /\ Len(BirdAt(birds, 0).color) = 3
    /\ Len(BirdAt(birds, 1).color) = 3
    /\ Len(hunts) = 2
    /\ hunts[1].predator.active
    /\ GreaterThanZero(hunts[1].memberships[1])
    /\ BirdAt(birds, 0).acceleration # Vector(0, 0)

\* the physical state of the birds
Physics(bs) ==
    [k \in 1..Len(bs) |-> [position |-> bs[k].position, velocity |-> bs[k].velocity,
                           acceleration |-> bs[k].acceleration]]

\* the same birds in other colours: black for white, white for any other
Recoloured(bs) ==
    [k \in 1..Len(bs) |->
        [bs[k] EXCEPT !.color = IF Len(@) = 3 THEN White ELSE [c \in 1..3 |-> 0]]]

\* every step of a tick leaves the birds in the physical state it would
\* leave the same birds of other colours in
ColourBlindStep ==
    /\ ticks' # ticks =>
           \A byX \in SortedOrders(birds, "x"), byY \in SortedOrders(birds, "y") :
               (byX = sweeps'.orders.x /\ byY = sweeps'.orders.y) =>
                   Physics(processBirds(Recoloured(birds), byX, byY).birds) = Physics(birds')
    /\ pc = "tick" =>
           Physics(<<forEachBird(BirdAt(Recoloured(birds), cursor), predator)>>)
           = Physics(<<BirdAt(birds', cursor)>>)

\* C29: runs that differ only in the colours of the birds have the same
\* positions, velocities and accelerations after every tick
ColourNeverFeedsBack == [][ColourBlindStep]_vars

\* C29: a second tick is over, which two birds began in the colours the
\* first tick had given them, not white and not the lightest
ColourNeverFeedsBackWitness ==
    /\ AfterTick
    /\ ticks = MaxTicks + 1
    /\ Len(birds) = 2
    /\ Len(BirdAt(birds, 0).color) = 3
    /\ Len(BirdAt(birds, 1).color) = 3
    /\ \E c \in 1..3 : /\ BirdAt(birds, 0).color[c] >= 0
                        /\ BirdAt(birds, 0).color[c] < 255

\* C30: after a.considerBird(b), called on two white birds, the colour of a
\* is the triple of floor(255 * (1 - m)) over the three memberships a
\* computed for b, and b is still white
ColourOfTheConsiderer ==
    \A c \in 1..Len(calls) :
        /\ Len(BirdAt(birds, calls[c].self).color) = 3
        /\ BirdAt(birds, calls[c].self).color = rgb(calls[c].memberships)
        /\ Len(BirdAt(birds, calls[c].other).color) = 1

====
